---- MODULE Spec2Model ----
(***************************************************************************)
(* Cross-view vessel synchronisation of the maritime monitoring app:       *)
(*   - the root view App (registration, location / status updates, the     *)
(*     coast-guard synchronisation loop) over the localStorage key         *)
(*     'registeredVessels' (the mirror), seen from several browser tabs;   *)
(*   - the shared geolocation service (SharedGeolocationService).          *)
(***************************************************************************)
EXTENDS Integers, Sequences, FiniteSets, TLC

\* ------------------------------------------------------------------ bounds
MaxClock == 3
MaxSubs == 3
MaxWatchCalls == 3
MaxRequests == 2
MaxTimers == 2

\* ------------------------------------------------------------ value domains
Tabs == {"t1", "t2"}
CgTabs == {"t2"}            \* the tabs in which the user picks the coast-guard portal
AisIds == {"AIS1", "AIS2"}
BoatIds == {"B1"}
Names == {"cap"}
Contacts == {"tel"}
Lats == {11}
Lngs == {77}
Statuses == {"safe", "warning", "danger"}
CgIds == {"CG-A"}
PosFns == {"onPos1", "onPos2"}
ErrFns == {"onErr1", "onErr2"}
Samples == {"p1", "p2"}
ErrorCodes == {1, 2, 3}

None == <<>>
Some(x) == <<x>>

\* GeolocationPosition.coords as the trackers read it: speed in m/s or null,
\* heading in degrees or null
Positions ==
  {[lat |-> 11, lng |-> 77, speed |-> None, heading |-> None],
   [lat |-> 11, lng |-> 77, speed |-> Some(0), heading |-> None],
   [lat |-> 11, lng |-> 77, speed |-> Some(5), heading |-> Some(90)]}

\* --------------------------------------------------------------- variables
VARIABLES
  mirror,                \* localStorage['registeredVessels']
  storageEvt,            \* per tab: a 'storage' event for the key is in flight
  now,                   \* Date.now()
  dispatched,            \* number of 'vesselsUpdated' events dispatched so far
  userType,              \* per tab: "null" | "fisherman" | "coastguard"
  isRegistered,
  boatData,              \* per tab: None | Some(BoatData)
  allBoats,              \* per tab: sequence of BoatData
  isTracking,
  coastGuardVessel,      \* per tab: None | Some(CoastGuardVessel)
  isCoastGuardTracking,
  syncOn,                \* per tab: poll + both listeners of the sync loop installed
  mirror0,               \* history: the mirror as the browser profile held it at the start
  lastReg,               \* history: per AIS id, the record the last registration wrote
  scen,                  \* history: progress of the safe-then-danger scenario
  uncaught,              \* history: the exception that escaped the last handler, "" if none
  \* the tracker component of each tab (LocationTracker / CoastGuardLocationTracker)
  locationStatus,        \* per tab: the tracker's locationStatus
  trackerWatch,          \* per tab: None | Some(watchId) held by the live effect
  watchRequests,         \* per tab: watchPosition calls the trackers made so far
  oneShotRequests,       \* per tab: getCurrentPosition calls the trackers made so far
  pending,               \* per tab: the one-shot requests not yet answered
  \* the MapUpdater of the map of one tab (MapTab), and the user at that map
  isUserInteracting,     \* ref isUserInteracting.current
  hasInitialized,        \* ref hasInitialized.current
  lastBoatCount,         \* ref lastBoatCount.current
  resetTimers,           \* number of 1-second reset timers not yet fired
  zoomOutOfRange,        \* map.getZoom() < 10 || map.getZoom() > 18
  inProgress,            \* the user interactions in progress: subset of {"zoom", "move"}
  lastAdjust,            \* the automatic view change the last step made, "none" if none
  \* SharedGeolocationService and the platform under it
  geoAvailable,          \* navigator.geolocation exists
  currentPosition,       \* None | Some(sample)
  callbacks,             \* Set of sample callbacks
  errorCallbacks,        \* Set of error callbacks
  watchId,               \* None | Some(id)
  isWatching,
  openWatches,           \* platform: ids of the watches opened and not cleared
  watchCalls,            \* platform: number of watchPosition calls so far
  handles,               \* the closures returned by subscribe, in call order
  lastCall               \* the callbacks the last operation invoked, and with what

appVars == <<mirror, storageEvt, now, dispatched, userType, isRegistered, boatData, allBoats,
             isTracking, coastGuardVessel, isCoastGuardTracking, syncOn, mirror0>>

histVars == <<lastReg, scen, uncaught>>

trackVars == <<locationStatus, trackerWatch, watchRequests, oneShotRequests, pending>>

geoVars == <<geoAvailable, currentPosition, callbacks, errorCallbacks, watchId,
             isWatching, openWatches, watchCalls, handles, lastCall>>

mapVars == <<isUserInteracting, hasInitialized, lastBoatCount, resetTimers,
             zoomOutOfRange, inProgress, lastAdjust>>

vars == <<appVars, histVars, geoVars, trackVars, mapVars>>

\* ------------------------------------------------------------ the mirror
Absent == [kind |-> "absent", val |-> <<>>]

\* other texts the key can hold: the empty string, a text JSON.parse rejects,
\* and a JSON text that is not an array (an object, null, a number, a string)
EmptyText == [kind |-> "empty", val |-> <<>>]
Garbage == [kind |-> "garbage", val |-> <<>>]
NonList == [kind |-> "nonlist", val |-> <<>>]

\* if (storedVessels): getItem returned a non-empty string
Truthy(m) == m.kind \notin {"absent", "empty"}

\* JSON.parse(storedVessels) throws a SyntaxError
ParseThrows(m) == m.kind = "garbage"

\* JSON.stringify of a vessel list: a JSON array text
JSONstringify(list) == [kind |-> "list", val |-> list]

\* JSON.parse of the stored text yields an array exactly when the text is one
IsArray(m) == m.kind = "list"

\* What a reader that falls back to [] obtains from the mirror
MirrorContent == IF IsArray(mirror) THEN mirror.val ELSE <<>>

\* ----------------------------------------------------------- list helpers
IdsOf(list) == {list[i].aisId : i \in 1..Len(list)}

\* Array.prototype.findIndex(boat => boat.aisId === aisId); 0 stands for -1
FindIndex(list, aisId) ==
  IF \E i \in 1..Len(list) : list[i].aisId = aisId
  THEN CHOOSE i \in 1..Len(list) :
         /\ list[i].aisId = aisId
         /\ \A j \in 1..(i - 1) : list[j].aisId # aisId
  ELSE 0

\* mutant: the existing index is ignored and the vessel is always pushed
UpsertVessel_AlwaysPush(list, boat) == Append(list, boat)

\* if (existingIndex >= 0) vessels[existingIndex] = newBoat else vessels.push(newBoat)
UpsertVessel(list, boat) ==
  LET i == FindIndex(list, boat.aisId)
  IN IF i > 0 THEN [list EXCEPT ![i] = boat] ELSE Append(list, boat)

\* prev.map(boat => boat.aisId === aisId ? updatedBoat : boat)
MapReplace(list, aisId, updatedBoat) ==
  [i \in 1..Len(list) |-> IF list[i].aisId = aisId THEN updatedBoat ELSE list[i]]

\* prev.map(boat => boat.aisId === aisId ? { ...boat, status } : boat)
MapStatus(list, aisId, status) ==
  [i \in 1..Len(list) |->
     IF list[i].aisId = aisId THEN [list[i] EXCEPT !.status = status] ELSE list[i]]

NewBoat(aisId, boatId, fishermanName, contactInfo, ts) ==
  [aisId |-> aisId, boatId |-> boatId,
   location |-> [lat |-> 0, lng |-> 0, timestamp |-> ts],
   status |-> "safe", speed |-> 0, heading |-> 0, lastUpdate |-> ts,
   fishermanName |-> fishermanName, contactInfo |-> contactInfo]

\* a record left in the browser profile by an earlier visit
StoredBoat ==
  [NewBoat("AIS1", "B0", "cap", "tel", 0) EXCEPT !.status = "warning"]

NewCgVessel(id, ts) ==
  [vesselId |-> id, vesselName |-> "Coast Guard Patrol Vessel",
   location |-> [lat |-> 0, lng |-> 0, timestamp |-> ts],
   speed |-> 0, heading |-> 0, lastUpdate |-> ts, isTracking |-> FALSE]

\* ---------------------------------------------------------------- reading
\* mutant: the stored text is never parsed, the view always gets []
LoadedVessels_AlwaysEmpty(m) == <<>>

\* what is thrown inside the try block of loadVesselsFromStorage: JSON.parse
\* rejects the text, or vessels.length / vessels.map fails on a non-array
LoadThrown(m) ==
  IF ~Truthy(m) THEN ""
  ELSE IF ParseThrows(m) THEN "SyntaxError"
  ELSE IF ~IsArray(m) THEN "TypeError"
  ELSE ""

\* mutant: loadVesselsFromStorage without its try / catch
LoadEscapes_NoCatch(m) == LoadThrown(m)

\* the exception that leaves loadVesselsFromStorage: catch (error) takes all
LoadEscapes(m) == ""

\* loadVesselsFromStorage: the list handed to setAllBoats
LoadedVessels(m) ==
  IF ~Truthy(m) THEN <<>>
  ELSE IF LoadThrown(m) # "" THEN <<>>
  ELSE m.val

\* mutant: the registration starts from [] instead of the stored list
StoredVessels_Forgotten(m) == <<>>

\* the exception that leaves handleFishermanRegistration: JSON.parse is inside
\* a try, vessels.findIndex on what it returned is not
RegistrationThrown(m) ==
  IF Truthy(m) /\ ~ParseThrows(m) /\ ~IsArray(m) THEN "TypeError" ELSE ""

\* the list a registration starts from (getItem, JSON.parse, catch -> [])
StoredVessels(m) ==
  IF Truthy(m) /\ ~ParseThrows(m) /\ IsArray(m) THEN m.val ELSE <<>>

\* localStorage.setItem fires a 'storage' event in every other tab when the
\* stored value changes; only a tab whose handleStorageChange is installed can
\* observe it, so the event is tracked for those tabs alone
SetItem(t, list) ==
  /\ mirror' = JSONstringify(list)
  /\ storageEvt' = [u \in Tabs |->
                      IF u # t /\ syncOn[u] /\ JSONstringify(list) # mirror THEN TRUE ELSE storageEvt[u]]

\* mutant: the write is not followed by the broadcast
DispatchEvent_Skipped == UNCHANGED dispatched

\* window.dispatchEvent(new CustomEvent('vesselsUpdated'))
DispatchEvent == dispatched' = dispatched + 1

\* mutant: handleCustomStorageChange is left installed after the session
AfterDispatch_ListenerLeft(t, inMemory, stored) ==
  LoadedVessels(JSONstringify(stored))

\* window.dispatchEvent(new CustomEvent('vesselsUpdated')): the listener of the
\* same tab, when installed, reloads synchronously; otherwise nobody listens
AfterDispatch(t, inMemory, stored) ==
  IF syncOn[t] THEN LoadedVessels(JSONstringify(stored)) ELSE inMemory

\* -------------------------------------------------------------------- Init
ViewInit ==
  /\ storageEvt = [t \in Tabs |-> FALSE]
  /\ now = 0
  /\ dispatched = 0
  /\ userType = [t \in Tabs |-> "null"]
  /\ isRegistered = [t \in Tabs |-> FALSE]
  /\ boatData = [t \in Tabs |-> None]
  /\ allBoats = [t \in Tabs |-> <<>>]
  /\ isTracking = [t \in Tabs |-> FALSE]
  /\ coastGuardVessel = [t \in Tabs |-> None]
  /\ isCoastGuardTracking = [t \in Tabs |-> FALSE]
  /\ syncOn = [t \in Tabs |-> FALSE]

AppInit ==
  /\ mirror \in {Absent, JSONstringify(<<StoredBoat>>)}
  /\ mirror0 = mirror
  /\ ViewInit

\* ----------------------------------------------------------------- actions
\* onClick={() => setUserType('fisherman')}
SelectFisherman(t) ==
  /\ userType[t] = "null"
  /\ userType' = [userType EXCEPT ![t] = "fisherman"]
  /\ UNCHANGED <<mirror, storageEvt, now, dispatched, isRegistered, boatData, allBoats, isTracking,
                 coastGuardVessel, isCoastGuardTracking, syncOn>>

\* onClick={() => setUserType('coastguard')} and the effect it triggers
SelectCoastGuard(t, id) ==
  /\ userType[t] = "null"
  /\ userType' = [userType EXCEPT ![t] = "coastguard"]
  /\ coastGuardVessel' = [coastGuardVessel EXCEPT ![t] = Some(NewCgVessel(id, now))]
  /\ allBoats' = [allBoats EXCEPT ![t] = LoadedVessels(mirror)]
  /\ syncOn' = [syncOn EXCEPT ![t] = TRUE]
  /\ UNCHANGED <<mirror, storageEvt, now, dispatched, isRegistered, boatData, isTracking,
                 isCoastGuardTracking>>

\* "Back to Portal Selection" on the registration page
BackToPortal(t) ==
  /\ userType[t] = "fisherman" /\ ~isRegistered[t]
  /\ userType' = [userType EXCEPT ![t] = "null"]
  /\ UNCHANGED <<mirror, storageEvt, now, dispatched, isRegistered, boatData, allBoats, isTracking,
                 coastGuardVessel, isCoastGuardTracking, syncOn>>

handleFishermanRegistration(t, aisId, boatId, fishermanName, contactInfo) ==
  /\ userType[t] = "fisherman" /\ ~isRegistered[t]
  /\ now < MaxClock
  /\ LET newBoat == NewBoat(aisId, boatId, fishermanName, contactInfo, now)
         vessels == UpsertVessel(StoredVessels(mirror), newBoat)
     IN /\ boatData' = [boatData EXCEPT ![t] = Some(newBoat)]
        /\ isRegistered' = [isRegistered EXCEPT ![t] = TRUE]
        /\ isTracking' = [isTracking EXCEPT ![t] = TRUE]
        /\ IF RegistrationThrown(mirror) # ""
           THEN \* the handler stops at findIndex; the three state updates stand
                UNCHANGED <<mirror, storageEvt, allBoats, now, dispatched>>
           ELSE /\ SetItem(t, vessels)
                /\ DispatchEvent
                /\ allBoats' = [allBoats EXCEPT ![t] =
                                  UpsertVessel(AfterDispatch(t, @, vessels), newBoat)]
                /\ now' = now + 1
  /\ UNCHANGED <<userType, coastGuardVessel, isCoastGuardTracking, syncOn>>

\* the body of updateLocation as a closure: boatData is the value the closure
\* captured at the render that created it
updateLocationWith(t, bd, lat, lng) ==
  IF bd # None
  THEN /\ now < MaxClock
       /\ LET updatedBoat == [bd[1] EXCEPT
                                !.location = [lat |-> lat, lng |-> lng, timestamp |-> now],
                                !.lastUpdate = now]
              updated == MapReplace(allBoats[t], bd[1].aisId, updatedBoat)
          IN /\ boatData' = [boatData EXCEPT ![t] = Some(updatedBoat)]
             /\ SetItem(t, updated)
             /\ DispatchEvent
             /\ allBoats' = [allBoats EXCEPT ![t] = updated]
       /\ now' = now + 1
       /\ UNCHANGED <<userType, isRegistered, isTracking, coastGuardVessel,
                      isCoastGuardTracking, syncOn>>
  ELSE UNCHANGED <<mirror, storageEvt, now, dispatched, userType, isRegistered, boatData, allBoats,
                   isTracking, coastGuardVessel, isCoastGuardTracking, syncOn>>

updateLocation(t, lat, lng) ==
  /\ userType[t] = "fisherman" /\ isRegistered[t] /\ isTracking[t]
  /\ boatData[t] # None
  /\ updateLocationWith(t, boatData[t], lat, lng)

\* mutant: the coast-guard record is upserted into the mirror like a vessel
updateCoastGuardLocationWith_Persisted(t, cg, lat, lng, speed, heading) ==
  /\ cg # None
  /\ coastGuardVessel' =
       [coastGuardVessel EXCEPT ![t] =
          Some([cg[1] EXCEPT
                  !.location = [lat |-> lat, lng |-> lng, timestamp |-> now],
                  !.speed = speed, !.heading = heading, !.lastUpdate = now])]
  /\ mirror' = JSONstringify(Append(MirrorContent, coastGuardVessel'[t][1]))
  /\ UNCHANGED <<storageEvt, now, dispatched, userType, isRegistered, boatData, allBoats,
                 isTracking, isCoastGuardTracking, syncOn>>

\* the body of updateCoastGuardLocation as a closure over coastGuardVessel
updateCoastGuardLocationWith(t, cg, lat, lng, speed, heading) ==
  /\ coastGuardVessel' =
       IF cg # None
       THEN [coastGuardVessel EXCEPT ![t] =
               Some([cg[1] EXCEPT
                       !.location = [lat |-> lat, lng |-> lng, timestamp |-> now],
                       !.speed = speed, !.heading = heading, !.lastUpdate = now])]
       ELSE coastGuardVessel
  /\ UNCHANGED <<mirror, storageEvt, now, dispatched, userType, isRegistered, boatData, allBoats,
                 isTracking, isCoastGuardTracking, syncOn>>

\* the "Enable Live Tracking" checkbox of the coast-guard tracker
toggleCoastGuardTracking(t, enabled) ==
  /\ userType[t] = "coastguard"
  /\ isCoastGuardTracking' = [isCoastGuardTracking EXCEPT ![t] = enabled]
  /\ coastGuardVessel' =
       IF coastGuardVessel[t] # None
       THEN [coastGuardVessel EXCEPT ![t] = Some([@[1] EXCEPT !.isTracking = enabled])]
       ELSE coastGuardVessel
  /\ UNCHANGED <<mirror, storageEvt, now, dispatched, userType, isRegistered, boatData, allBoats,
                 isTracking, syncOn>>

updateBoatStatus(t, status) ==
  /\ userType[t] = "fisherman" /\ isRegistered[t]
  /\ boatData[t] # None
  /\ now < MaxClock
  /\ LET updatedBoat == [boatData[t][1] EXCEPT !.status = status]
         updated == MapReplace(allBoats[t], boatData[t][1].aisId, updatedBoat)
     IN /\ boatData' = [boatData EXCEPT ![t] = Some(updatedBoat)]
        /\ SetItem(t, updated)
        /\ DispatchEvent
        /\ allBoats' = [allBoats EXCEPT ![t] = updated]
  /\ now' = now + 1
  /\ UNCHANGED <<userType, isRegistered, isTracking, coastGuardVessel,
                 isCoastGuardTracking, syncOn>>

\* mutant: the handler re-reads the mirror and changes the one record in it
updateBoatStatusByCoastGuard_Merged(t, aisId, status) ==
  /\ userType[t] = "coastguard"
  /\ aisId \in IdsOf(allBoats[t])
  /\ now < MaxClock
  /\ LET updated == MapStatus(StoredVessels(mirror), aisId, status)
     IN /\ SetItem(t, updated)
        /\ DispatchEvent
        /\ allBoats' = [allBoats EXCEPT ![t] = updated]
        /\ boatData' = [boatData EXCEPT ![t] =
                          IF @ # None /\ @[1].aisId = aisId
                          THEN Some([@[1] EXCEPT !.status = status]) ELSE @]
  /\ now' = now + 1
  /\ UNCHANGED <<userType, isRegistered, isTracking, coastGuardVessel,
                 isCoastGuardTracking, syncOn>>

updateBoatStatusByCoastGuard(t, aisId, status) ==
  /\ userType[t] = "coastguard"
  /\ aisId \in IdsOf(allBoats[t])
  /\ now < MaxClock
  /\ LET updated == MapStatus(allBoats[t], aisId, status)
     IN /\ SetItem(t, updated)
        /\ DispatchEvent
        /\ allBoats' = [allBoats EXCEPT ![t] = updated]
        /\ boatData' = [boatData EXCEPT ![t] =
                          IF @ # None /\ @[1].aisId = aisId
                          THEN Some([@[1] EXCEPT !.status = status]) ELSE @]
  /\ now' = now + 1
  /\ UNCHANGED <<userType, isRegistered, isTracking, coastGuardVessel,
                 isCoastGuardTracking, syncOn>>

\* mutant: the interval callback does not call loadVesselsFromStorage
Poll_WithoutLoad(t) ==
  /\ syncOn[t]
  /\ UNCHANGED <<mirror, storageEvt, now, dispatched, userType, isRegistered, boatData, allBoats,
                 isTracking, coastGuardVessel, isCoastGuardTracking, syncOn>>

\* setInterval(() => loadVesselsFromStorage(), 2000)
Poll(t) ==
  /\ syncOn[t]
  /\ allBoats' = [allBoats EXCEPT ![t] = LoadedVessels(mirror)]
  /\ UNCHANGED <<mirror, storageEvt, now, dispatched, userType, isRegistered, boatData, isTracking,
                 coastGuardVessel, isCoastGuardTracking, syncOn>>

\* a 'storage' event reaches the tab: handleStorageChange when installed
StorageEvent(t) ==
  /\ storageEvt[t]
  /\ storageEvt' = [storageEvt EXCEPT ![t] = FALSE]
  /\ allBoats' = [allBoats EXCEPT ![t] = IF syncOn[t] THEN LoadedVessels(mirror) ELSE @]
  /\ UNCHANGED <<mirror, now, dispatched, userType, isRegistered, boatData, isTracking,
                 coastGuardVessel, isCoastGuardTracking, syncOn>>

\* coast-guard Logout button, with the effect cleanup
CoastGuardLogout(t) ==
  /\ userType[t] = "coastguard"
  /\ userType' = [userType EXCEPT ![t] = "null"]
  /\ isRegistered' = [isRegistered EXCEPT ![t] = FALSE]
  /\ allBoats' = [allBoats EXCEPT ![t] = <<>>]
  /\ syncOn' = [syncOn EXCEPT ![t] = FALSE]
  /\ storageEvt' = [storageEvt EXCEPT ![t] = FALSE]
  /\ UNCHANGED <<mirror, now, dispatched, boatData, isTracking, coastGuardVessel,
                 isCoastGuardTracking>>

\* fisherman Logout button
FishermanLogout(t) ==
  /\ userType[t] = "fisherman" /\ isRegistered[t]
  /\ userType' = [userType EXCEPT ![t] = "null"]
  /\ isRegistered' = [isRegistered EXCEPT ![t] = FALSE]
  /\ boatData' = [boatData EXCEPT ![t] = None]
  /\ isTracking' = [isTracking EXCEPT ![t] = FALSE]
  /\ UNCHANGED <<mirror, storageEvt, now, dispatched, allBoats, coastGuardVessel,
                 isCoastGuardTracking, syncOn>>

\* the page of the tab is reloaded: every useState starts over, the mirror stays
PageReload(t) ==
  /\ userType' = [userType EXCEPT ![t] = "null"]
  /\ isRegistered' = [isRegistered EXCEPT ![t] = FALSE]
  /\ boatData' = [boatData EXCEPT ![t] = None]
  /\ allBoats' = [allBoats EXCEPT ![t] = <<>>]
  /\ isTracking' = [isTracking EXCEPT ![t] = FALSE]
  /\ coastGuardVessel' = [coastGuardVessel EXCEPT ![t] = None]
  /\ isCoastGuardTracking' = [isCoastGuardTracking EXCEPT ![t] = FALSE]
  /\ syncOn' = [syncOn EXCEPT ![t] = FALSE]
  /\ storageEvt' = [storageEvt EXCEPT ![t] = FALSE]
  /\ UNCHANGED <<mirror, now, dispatched>>

NoHist == [stage |-> "none", x |-> "", stale |-> {}]

HistInit ==
  /\ lastReg = [a \in AisIds |-> None]
  /\ scen = NoHist
  /\ uncaught = ""

\* no tracker is mounted before a role is chosen
TrackInit ==
  /\ locationStatus = [t \in Tabs |-> "requesting"]
  /\ trackerWatch = [t \in Tabs |-> None]
  /\ watchRequests = [t \in Tabs |-> 0]
  /\ oneShotRequests = [t \in Tabs |-> 0]
  /\ pending = [t \in Tabs |-> {}]

NoCall == [kind |-> "none", position |-> "", error |-> 0, fns |-> {}]

GeoInit ==
  /\ geoAvailable = TRUE
  /\ currentPosition = None
  /\ callbacks = {}
  /\ errorCallbacks = {}
  /\ watchId = None
  /\ isWatching = FALSE
  /\ openWatches = {}
  /\ watchCalls = 0
  /\ handles = <<>>
  /\ lastCall = NoCall

\* MapContainer zoom={defaultZoom} (12) and the refs of MapUpdater
MapInit ==
  /\ isUserInteracting = FALSE
  /\ hasInitialized = FALSE
  /\ lastBoatCount = 0
  /\ resetTimers = 0
  /\ zoomOutOfRange = FALSE
  /\ inProgress = {}
  /\ lastAdjust = "none"

Init == AppInit /\ HistInit /\ GeoInit /\ TrackInit /\ MapInit

\* the history variables take no part in the plain specification
Keep == UNCHANGED <<mirror0, lastReg, scen, uncaught>> /\ UNCHANGED <<geoVars, trackVars, mapVars>>

Next ==
  \/ \E t \in Tabs : SelectFisherman(t) /\ Keep
  \/ \E t \in CgTabs, id \in CgIds : SelectCoastGuard(t, id) /\ Keep
  \/ \E t \in Tabs : BackToPortal(t) /\ Keep
  \/ \E t \in Tabs, a \in AisIds, b \in BoatIds, n \in Names, c \in Contacts :
       handleFishermanRegistration(t, a, b, n, c) /\ Keep
  \/ \E t \in Tabs, lat \in Lats, lng \in Lngs : updateLocation(t, lat, lng) /\ Keep
  \/ \E t \in Tabs, s \in Statuses : updateBoatStatus(t, s) /\ Keep
  \/ \E t \in Tabs, a \in AisIds, s \in Statuses :
       updateBoatStatusByCoastGuard(t, a, s) /\ Keep
  \/ \E t \in Tabs : Poll(t) /\ Keep
  \/ \E t \in Tabs : StorageEvent(t) /\ Keep
  \/ \E t \in Tabs : CoastGuardLogout(t) /\ Keep
  \/ \E t \in Tabs : FishermanLogout(t) /\ Keep
  \/ \E t \in Tabs : PageReload(t) /\ Keep

Spec == Init /\ [][Next]_vars

\* The 2-second interval timer of a coast-guard session keeps firing for as
\* long as the session lasts; nothing is assumed of the two event triggers.
FairSpec == Spec /\ \A t \in Tabs : WF_vars(Poll(t) /\ Keep)

\* ------------------------------------------------- registrations only
\* The views of all tabs restricted to the operations that do not write the
\* mirror, plus registration; lastReg records what each registration wrote.
NextReg ==
  \/ \E t \in Tabs, a \in AisIds, b \in BoatIds, n \in Names, c \in Contacts :
       /\ handleFishermanRegistration(t, a, b, n, c)
       /\ lastReg' = [lastReg EXCEPT ![a] = Some(NewBoat(a, b, n, c, now))]
       /\ UNCHANGED <<mirror0, scen, uncaught, geoVars, trackVars, mapVars>>
  \/ \E t \in Tabs : SelectFisherman(t) /\ Keep
  \/ \E t \in Tabs : BackToPortal(t) /\ Keep
  \/ \E t \in Tabs : FishermanLogout(t) /\ Keep
  \/ \E t \in Tabs : PageReload(t) /\ Keep

SpecReg == Init /\ [][NextReg]_vars

\* ------------------------------------------- any content under the key
\* The views over a mirror key that may hold anything at the start; uncaught
\* records the exception that escaped the handler of the last step.
StoreInit ==
  /\ mirror \in {Absent, EmptyText, Garbage, NonList, JSONstringify(<<StoredBoat>>)}
  /\ mirror0 = mirror
  /\ ViewInit /\ HistInit /\ GeoInit /\ TrackInit /\ MapInit

Quiet == UNCHANGED <<mirror0, lastReg, scen, geoVars, trackVars, mapVars>>

NextStore ==
  \/ \E t \in Tabs : SelectFisherman(t) /\ uncaught' = "" /\ Quiet
  \/ \E t \in CgTabs, id \in CgIds :
       SelectCoastGuard(t, id) /\ uncaught' = LoadEscapes(mirror) /\ Quiet
  \/ \E t \in Tabs, a \in AisIds, b \in BoatIds, n \in Names, c \in Contacts :
       /\ handleFishermanRegistration(t, a, b, n, c)
       /\ uncaught' = RegistrationThrown(mirror)
       /\ Quiet
  \/ \E t \in Tabs, lat \in Lats, lng \in Lngs :
       updateLocation(t, lat, lng) /\ uncaught' = "" /\ Quiet
  \/ \E t \in Tabs, s \in Statuses : updateBoatStatus(t, s) /\ uncaught' = "" /\ Quiet
  \/ \E t \in Tabs, a \in AisIds, s \in Statuses :
       updateBoatStatusByCoastGuard(t, a, s) /\ uncaught' = "" /\ Quiet
  \/ \E t \in Tabs : Poll(t) /\ uncaught' = LoadEscapes(mirror) /\ Quiet
  \/ \E t \in Tabs : StorageEvent(t) /\ uncaught' = LoadEscapes(mirror) /\ Quiet
  \/ \E t \in Tabs : CoastGuardLogout(t) /\ uncaught' = "" /\ Quiet
  \/ \E t \in Tabs : FishermanLogout(t) /\ uncaught' = "" /\ Quiet

SpecStore == StoreInit /\ [][NextStore]_vars

\* ------------------------------------------- the safe-then-danger scenario
\* scen follows the scenario: stage "A" after a fisherman tab wrote its vessel x
\* with status safe (stale = the tabs that have not re-read the mirror since),
\* stage "B" after a coast-guard tab of stale wrote x with status danger, kept
\* through reload triggers and location samples, dropped by anything else.
StatusIn(list, aisId) ==
  IF aisId \in IdsOf(list) THEN list[FindIndex(list, aisId)].status ELSE "absent"

SafeWritten(t) ==
  IF boatData'[t] # None /\ StatusIn(MirrorContent', boatData'[t][1].aisId) = "safe"
  THEN [stage |-> "A", x |-> boatData'[t][1].aisId, stale |-> Tabs \ {t}]
  ELSE NoHist

Reread(t) == IF scen.stage = "A" THEN [scen EXCEPT !.stale = @ \ {t}] ELSE scen

NextScen ==
  \/ \E t \in Tabs : SelectFisherman(t) /\ scen' = NoHist /\ UNCHANGED <<mirror0, lastReg, uncaught, geoVars, trackVars, mapVars>>
  \/ \E t \in CgTabs, id \in CgIds :
       SelectCoastGuard(t, id) /\ scen' = NoHist /\ UNCHANGED <<mirror0, lastReg, uncaught, geoVars, trackVars, mapVars>>
  \/ \E t \in Tabs : BackToPortal(t) /\ scen' = NoHist /\ UNCHANGED <<mirror0, lastReg, uncaught, geoVars, trackVars, mapVars>>
  \/ \E t \in Tabs, a \in AisIds, b \in BoatIds, n \in Names, c \in Contacts :
       /\ handleFishermanRegistration(t, a, b, n, c)
       /\ scen' = SafeWritten(t)
       /\ UNCHANGED <<mirror0, lastReg, uncaught, geoVars, trackVars, mapVars>>
  \/ \E t \in Tabs, lat \in Lats, lng \in Lngs :
       /\ updateLocation(t, lat, lng)
       /\ scen' = IF scen.stage = "B" THEN scen ELSE SafeWritten(t)
       /\ UNCHANGED <<mirror0, lastReg, uncaught, geoVars, trackVars, mapVars>>
  \/ \E t \in Tabs, s \in Statuses :
       /\ updateBoatStatus(t, s)
       /\ scen' = SafeWritten(t)
       /\ UNCHANGED <<mirror0, lastReg, uncaught, geoVars, trackVars, mapVars>>
  \/ \E t \in Tabs, a \in AisIds, s \in Statuses :
       /\ updateBoatStatusByCoastGuard(t, a, s)
       /\ scen' = IF scen.stage = "A" /\ t \in scen.stale /\ a = scen.x /\ s = "danger"
                  THEN [stage |-> "B", x |-> a, stale |-> {}]
                  ELSE NoHist
       /\ UNCHANGED <<mirror0, lastReg, uncaught, geoVars, trackVars, mapVars>>
  \/ \E t \in Tabs : Poll(t) /\ scen' = Reread(t) /\ UNCHANGED <<mirror0, lastReg, uncaught, geoVars, trackVars, mapVars>>
  \/ \E t \in Tabs : StorageEvent(t) /\ scen' = Reread(t) /\ UNCHANGED <<mirror0, lastReg, uncaught, geoVars, trackVars, mapVars>>
  \/ \E t \in Tabs : CoastGuardLogout(t) /\ scen' = NoHist /\ UNCHANGED <<mirror0, lastReg, uncaught, geoVars, trackVars, mapVars>>
  \/ \E t \in Tabs : FishermanLogout(t) /\ scen' = NoHist /\ UNCHANGED <<mirror0, lastReg, uncaught, geoVars, trackVars, mapVars>>
  \/ \E t \in Tabs : PageReload(t) /\ scen' = NoHist /\ UNCHANGED <<mirror0, lastReg, uncaught, geoVars, trackVars, mapVars>>

SpecScen == Init /\ [][NextScen]_vars

\* ------------------------------------------------------------ the trackers
\* LocationTracker is rendered in the fisherman dashboard, and
\* CoastGuardLocationTracker in the coast-guard dashboard
Mounted(ut, reg) == (ut = "fisherman" /\ reg) \/ ut = "coastguard"

\* the isTracking prop the root view hands to the tracker it renders
TrackingProp(ut, trk, cgTrk) == IF ut = "coastguard" THEN cgTrk ELSE trk

TrackerOn(t) ==
  /\ Mounted(userType[t], isRegistered[t])
  /\ TrackingProp(userType[t], isTracking[t], isCoastGuardTracking[t])

\* mutant: the platform's metres per second are stored as they come
SpeedKnots_Unconverted(speed) == IF speed # None THEN speed[1] * 100000 ELSE 0

\* position.coords.speed !== null ? position.coords.speed * 1.94384 : 0,
\* in units of 1/100000 knot
SpeedKnots(speed) == IF speed # None THEN speed[1] * 194384 ELSE 0

\* position.coords.heading !== null ? position.coords.heading : 0
HeadingDegrees(heading) == IF heading # None THEN heading[1] ELSE 0

\* the switch on error.code in the error callback of watchPosition
StatusOfError(code) ==
  CASE code = 1 -> "denied"
    [] code = 2 -> "unavailable"
    [] code = 3 -> "timeout"
    [] OTHER -> "denied"

\* the statuses in which the error panel renders a button with onClick={handleRetry}
RetryVisible(status) == status \in {"denied", "timeout"}

\* a one-shot request whose callbacks belong to the mounted tracker
LiveRequest == [live |-> TRUE, kind |-> "", rec |-> None]

\* a one-shot request of a tracker that has been unmounted: its success callback
\* still calls onLocationUpdateRef.current, the closure of the tracker's last
\* render, which holds the record (rec) the root view had at that render
DeadRequest(kind, rec) == [live |-> FALSE, kind |-> kind, rec |-> rec]

\* What a render of the root view does to the tracker of tab t: mount / unmount
\* with the view, and useEffect(..., [isTracking]) with its cleanup.
TrackerRender(t) ==
  LET wasMounted == Mounted(userType[t], isRegistered[t])
      isMounted == Mounted(userType'[t], isRegistered'[t])
      wasOn == TrackerOn(t)
      isOn == /\ isMounted
              /\ TrackingProp(userType'[t], isTracking'[t], isCoastGuardTracking'[t])
      starts == isOn /\ ~wasOn
      issues == starts /\ geoAvailable
      lastClosure == DeadRequest(userType[t],
                                 IF userType[t] = "coastguard"
                                 THEN coastGuardVessel[t] ELSE boatData[t])
  IN /\ issues => watchRequests[t] < MaxRequests
     /\ locationStatus' = [locationStatus EXCEPT ![t] =
                             IF ~isMounted THEN "requesting"
                             ELSE IF starts /\ ~geoAvailable THEN "unavailable"
                             ELSE IF ~wasMounted THEN "requesting"
                             ELSE @]
     /\ trackerWatch' = [trackerWatch EXCEPT ![t] =
                           IF issues THEN Some(watchRequests[t] + 1)
                           ELSE IF isOn THEN @ ELSE None]
     /\ watchRequests' = [watchRequests EXCEPT ![t] = IF issues THEN @ + 1 ELSE @]
     /\ oneShotRequests' = [oneShotRequests EXCEPT ![t] = IF issues THEN @ + 1 ELSE @]
     /\ pending' = [pending EXCEPT ![t] =
                      LET kept == IF wasMounted /\ ~isMounted
                                  THEN {IF r.live THEN lastClosure ELSE r : r \in @}
                                  ELSE @
                      IN IF issues THEN kept \cup {LiveRequest} ELSE kept]

\* onLocationUpdateRef.current(...) as each tracker calls it
onLocationUpdate(t, kind, rec, position) ==
  IF kind = "coastguard"
  THEN updateCoastGuardLocationWith(t, rec, position.lat, position.lng,
                                    SpeedKnots(position.speed),
                                    HeadingDegrees(position.heading))
  ELSE updateLocationWith(t, rec, position.lat, position.lng)

LiveRecord(t) == IF userType[t] = "coastguard" THEN coastGuardVessel[t] ELSE boatData[t]

\* success callback of the tracker's watchPosition
trackerWatchSuccess(t, position) ==
  /\ trackerWatch[t] # None
  /\ locationStatus' = [locationStatus EXCEPT ![t] = "granted"]
  /\ onLocationUpdate(t, userType[t], LiveRecord(t), position)
  /\ UNCHANGED <<trackerWatch, watchRequests, oneShotRequests, pending>>

\* error callback of the tracker's watchPosition
trackerWatchError(t, code) ==
  /\ trackerWatch[t] # None
  /\ locationStatus' = [locationStatus EXCEPT ![t] = StatusOfError(code)]
  /\ UNCHANGED <<mirror, storageEvt, now, dispatched, userType, isRegistered, boatData, allBoats,
                 isTracking, coastGuardVessel, isCoastGuardTracking, syncOn>>
  /\ UNCHANGED <<trackerWatch, watchRequests, oneShotRequests, pending>>

\* success callback of getCurrentPosition; a one-shot request cannot be
\* cancelled, so it may answer after the effect cleanup or the unmount
oneShotSuccess(t, r, position) ==
  /\ r \in pending[t]
  /\ pending' = [pending EXCEPT ![t] = @ \ {r}]
  /\ IF r.live
     THEN /\ locationStatus' = [locationStatus EXCEPT ![t] = "granted"]
          /\ onLocationUpdate(t, userType[t], LiveRecord(t), position)
     ELSE /\ UNCHANGED locationStatus
          /\ onLocationUpdate(t, r.kind, r.rec, position)
  /\ UNCHANGED <<trackerWatch, watchRequests, oneShotRequests>>

\* error callback of getCurrentPosition: logs only
\* mutant: the error callback of the one-shot request reports a timeout
oneShotError_SetsStatus(t, r) ==
  /\ r \in pending[t]
  /\ pending' = [pending EXCEPT ![t] = @ \ {r}]
  /\ locationStatus' = [locationStatus EXCEPT ![t] = "timeout"]
  /\ UNCHANGED <<mirror, storageEvt, now, dispatched, userType, isRegistered, boatData, allBoats,
                 isTracking, coastGuardVessel, isCoastGuardTracking, syncOn>>
  /\ UNCHANGED <<trackerWatch, watchRequests, oneShotRequests>>

oneShotError(t, r) ==
  /\ r \in pending[t]
  /\ pending' = [pending EXCEPT ![t] = @ \ {r}]
  /\ UNCHANGED <<mirror, storageEvt, now, dispatched, userType, isRegistered, boatData, allBoats,
                 isTracking, coastGuardVessel, isCoastGuardTracking, syncOn>>
  /\ UNCHANGED <<locationStatus, trackerWatch, watchRequests, oneShotRequests>>

\* "Try Again" / "Retry" button; the effect depends on [isTracking] only
handleRetry(t) ==
  /\ Mounted(userType[t], isRegistered[t])
  /\ RetryVisible(locationStatus[t])
  /\ locationStatus' = [locationStatus EXCEPT ![t] = "requesting"]
  /\ UNCHANGED <<mirror, storageEvt, now, dispatched, userType, isRegistered, boatData, allBoats,
                 isTracking, coastGuardVessel, isCoastGuardTracking, syncOn>>
  /\ UNCHANGED <<trackerWatch, watchRequests, oneShotRequests, pending>>

\* the tab whose trackers are followed, through both roles in turn
TrackTabs == CgTabs

\* the views with their trackers; nothing here touches the shared service
Rest == UNCHANGED <<mirror0, histVars, geoVars, mapVars>>

NextTrack ==
  \/ \E t \in TrackTabs : SelectFisherman(t) /\ TrackerRender(t) /\ Rest
  \/ \E t \in TrackTabs, id \in CgIds : SelectCoastGuard(t, id) /\ TrackerRender(t) /\ Rest
  \/ \E t \in TrackTabs, a \in AisIds, b \in BoatIds, n \in Names, c \in Contacts :
       handleFishermanRegistration(t, a, b, n, c) /\ TrackerRender(t) /\ Rest
  \/ \E t \in TrackTabs :
       toggleCoastGuardTracking(t, ~isCoastGuardTracking[t]) /\ TrackerRender(t) /\ Rest
  \/ \E t \in TrackTabs : Poll(t) /\ TrackerRender(t) /\ Rest
  \/ \E t \in TrackTabs : CoastGuardLogout(t) /\ TrackerRender(t) /\ Rest
  \/ \E t \in TrackTabs : FishermanLogout(t) /\ TrackerRender(t) /\ Rest
  \/ \E t \in TrackTabs, p \in Positions : trackerWatchSuccess(t, p) /\ Rest
  \/ \E t \in TrackTabs, c \in ErrorCodes : trackerWatchError(t, c) /\ Rest
  \/ \E t \in TrackTabs, p \in Positions : \E r \in pending[t] : oneShotSuccess(t, r, p) /\ Rest
  \/ \E t \in TrackTabs : \E r \in pending[t] : oneShotError(t, r) /\ Rest
  \/ \E t \in TrackTabs : handleRetry(t) /\ Rest

\* ------------------------------------------------------------ the map
\* the tab whose map is followed
MapTab == "t2"

\* boats={allBoats} in the coast-guard dashboard, boats={boatData ? [boatData] : []}
\* in the fisherman dashboard
BoatsProp(ut, bd, all) ==
  IF ut = "coastguard" THEN all ELSE IF bd # None THEN <<bd[1]>> ELSE <<>>

\* coastGuardVessel={coastGuardVessel}, passed by the coast-guard dashboard only
CgProp(ut, cg) == IF ut = "coastguard" THEN cg ELSE None

\* if (isUserInteracting.current) return
Suppressed(flag) == flag

\* the view change the second effect of MapUpdater makes, given the refs
AdjustOf(ut, boats, cg, initialized, lastCount, outOfRange) ==
  IF ut = "fisherman"
  THEN IF Len(boats) = 1 THEN "setView" ELSE "none"
  ELSE LET shouldAutoAdjust ==
             \/ ~initialized
             \/ Len(boats) # lastCount
             \/ (Len(boats) = 0 /\ cg # None)
           allPositions == Len(boats) + (IF cg # None THEN 1 ELSE 0)
       IN IF ~shouldAutoAdjust THEN "none"
          ELSE IF allPositions = 1 THEN "setView"
          ELSE IF allPositions > 1 /\ outOfRange THEN "fitBounds"
          ELSE "none"

\* What a render of the root view of tab t does to the map: WorldMap mounts and
\* unmounts with the dashboards, and the second effect of MapUpdater runs as
\* the boats prop is a new array on every render. A view change made by the
\* program may make the map emit movestart / moveend itself (emitted).
MapRender(t, emitted) ==
  LET ut == userType'[t]
      wasMounted == Mounted(userType[t], isRegistered[t])
      isMounted == Mounted(ut, isRegistered'[t])
      flag == wasMounted /\ isUserInteracting
      initialized == wasMounted /\ hasInitialized
      lastCount == IF wasMounted THEN lastBoatCount ELSE 0
      outOfRange == wasMounted /\ zoomOutOfRange
      boats == BoatsProp(ut, boatData'[t], allBoats'[t])
      cg == CgProp(ut, coastGuardVessel'[t])
      adjust == IF Suppressed(flag) THEN "none"
                ELSE AdjustOf(ut, boats, cg, initialized, lastCount, outOfRange)
      ran == ~Suppressed(flag) /\ ut = "coastguard"
                /\ (~initialized \/ Len(boats) # lastCount \/ (Len(boats) = 0 /\ cg # None))
      timers == IF wasMounted THEN resetTimers ELSE 0
  IN IF ~isMounted
     THEN /\ isUserInteracting' = FALSE /\ hasInitialized' = FALSE
          /\ lastBoatCount' = 0 /\ resetTimers' = 0 /\ zoomOutOfRange' = FALSE
          /\ inProgress' = {} /\ lastAdjust' = "none"
     ELSE /\ lastAdjust' = adjust
          /\ hasInitialized' = (initialized \/ ran)
          /\ lastBoatCount' = IF ran THEN Len(boats) ELSE lastCount
          /\ zoomOutOfRange' = IF adjust = "none" THEN outOfRange ELSE FALSE
          /\ inProgress' = IF wasMounted THEN inProgress ELSE {}
          /\ IF adjust # "none" /\ emitted
             THEN /\ timers < MaxTimers
                  /\ isUserInteracting' = TRUE
                  /\ resetTimers' = timers + 1
             ELSE /\ isUserInteracting' = flag
                  /\ resetTimers' = timers

MapMounted == Mounted(userType[MapTab], isRegistered[MapTab])

\* map.on('zoomstart', handleZoomStart): the user starts to zoom
handleZoomStart ==
  /\ MapMounted /\ "zoom" \notin inProgress
  /\ inProgress' = inProgress \cup {"zoom"}
  /\ isUserInteracting' = TRUE
  /\ lastAdjust' = "none"
  /\ UNCHANGED <<hasInitialized, lastBoatCount, resetTimers, zoomOutOfRange>>

\* map.on('movestart', handleMoveStart): the user starts to drag
handleMoveStart ==
  /\ MapMounted /\ "move" \notin inProgress
  /\ inProgress' = inProgress \cup {"move"}
  /\ isUserInteracting' = TRUE
  /\ lastAdjust' = "none"
  /\ UNCHANGED <<hasInitialized, lastBoatCount, resetTimers, zoomOutOfRange>>

\* map.on('zoomend', handleZoomEnd): setTimeout(reset, 1000)
handleZoomEnd(outOfRange) ==
  /\ MapMounted /\ "zoom" \in inProgress
  /\ resetTimers < MaxTimers
  /\ inProgress' = inProgress \ {"zoom"}
  /\ resetTimers' = resetTimers + 1
  /\ zoomOutOfRange' = outOfRange
  /\ lastAdjust' = "none"
  /\ UNCHANGED <<isUserInteracting, hasInitialized, lastBoatCount>>

\* map.on('moveend', handleMoveEnd): setTimeout(reset, 1000)
handleMoveEnd ==
  /\ MapMounted /\ "move" \in inProgress
  /\ resetTimers < MaxTimers
  /\ inProgress' = inProgress \ {"move"}
  /\ resetTimers' = resetTimers + 1
  /\ lastAdjust' = "none"
  /\ UNCHANGED <<isUserInteracting, hasInitialized, lastBoatCount, zoomOutOfRange>>

\* a reset timer fires: isUserInteracting.current = false
resetTimerFires ==
  /\ MapMounted /\ resetTimers > 0
  /\ resetTimers' = resetTimers - 1
  /\ isUserInteracting' = FALSE
  /\ lastAdjust' = "none"
  /\ UNCHANGED <<hasInitialized, lastBoatCount, zoomOutOfRange, inProgress>>

Still == UNCHANGED <<mirror0, histVars, geoVars, trackVars>>

Views == UNCHANGED appVars

NextMap ==
  \/ \E e \in BOOLEAN : SelectFisherman(MapTab) /\ MapRender(MapTab, e) /\ Still
  \/ \E id \in CgIds, e \in BOOLEAN :
       SelectCoastGuard(MapTab, id) /\ MapRender(MapTab, e) /\ Still
  \/ \E a \in AisIds, b \in BoatIds, n \in Names, c \in Contacts, e \in BOOLEAN :
       handleFishermanRegistration(MapTab, a, b, n, c) /\ MapRender(MapTab, e) /\ Still
  \/ \E lat \in Lats, lng \in Lngs, e \in BOOLEAN :
       updateLocation(MapTab, lat, lng) /\ MapRender(MapTab, e) /\ Still
  \/ \E a \in AisIds, s \in Statuses, e \in BOOLEAN :
       updateBoatStatusByCoastGuard(MapTab, a, s) /\ MapRender(MapTab, e) /\ Still
  \/ \E e \in BOOLEAN :
       /\ toggleCoastGuardTracking(MapTab, ~isCoastGuardTracking[MapTab])
       /\ MapRender(MapTab, e) /\ Still
  \/ \E e \in BOOLEAN : Poll(MapTab) /\ MapRender(MapTab, e) /\ Still
  \/ \E e \in BOOLEAN : CoastGuardLogout(MapTab) /\ MapRender(MapTab, e) /\ Still
  \/ \E e \in BOOLEAN : FishermanLogout(MapTab) /\ MapRender(MapTab, e) /\ Still
  \/ handleZoomStart /\ Views /\ Still
  \/ handleMoveStart /\ Views /\ Still
  \/ \E z \in BOOLEAN : handleZoomEnd(z) /\ Views /\ Still
  \/ handleMoveEnd /\ Views /\ Still
  \/ resetTimerFires /\ Views /\ Still

SpecMap == Init /\ [][NextMap]_vars

\* --------------------------------------------- the shared geolocation service
\* mutant: every subscribe opens a watch of its own
ShouldStartWatching_Always == geoAvailable

\* mutant: the last unsubscribe leaves the watch running
ShouldStopWatching_Never(cbs) == FALSE

\* subscribe starts the watch when none is running (line 84) and startWatching
\* itself returns early when one is running or the platform has no geolocation
ShouldStartWatching == ~isWatching /\ geoAvailable

\* the unsubscribe closure stops the watch when no sample callback is left
ShouldStopWatching(cbs) == cbs = {}

\* mutant: the duplicate check of subscribe is skipped
IsDuplicate_Never(onPosition) == FALSE

\* if (this.callbacks.has(onPosition)) return () => {}
IsDuplicate(onPosition) == onPosition \in callbacks

\* mutant: a new consumer is not handed the sample already at hand
Replay_Never(onPosition) == NoCall

\* if (this.currentPosition) onPosition(this.currentPosition)
Replay(onPosition) ==
  IF currentPosition # None
  THEN [kind |-> "replay", position |-> currentPosition[1], error |-> 0,
        fns |-> {onPosition}]
  ELSE NoCall

\* startWatching past its guard: isWatching = true, watchId = watchPosition(...)
startWatching ==
  /\ isWatching' = TRUE
  /\ watchCalls' = watchCalls + 1
  /\ watchId' = Some(watchCalls + 1)
  /\ openWatches' = openWatches \cup {watchCalls + 1}

\* mutant: tearing the watch down forgets the last sample
stopWatching_Forgets ==
  /\ openWatches' = IF watchId # None THEN openWatches \ {watchId[1]} ELSE openWatches
  /\ watchId' = None
  /\ isWatching' = FALSE
  /\ currentPosition' = None
  /\ UNCHANGED watchCalls

\* stopWatching: clearWatch(watchId) when there is one, isWatching = false
stopWatching ==
  /\ openWatches' = IF watchId # None THEN openWatches \ {watchId[1]} ELSE openWatches
  /\ watchId' = None
  /\ isWatching' = FALSE
  /\ UNCHANGED <<watchCalls, currentPosition>>

\* the closure subscribe returns: the real one, or () => {} for a duplicate
Handle(onPosition, onError, real) ==
  [onPosition |-> onPosition, onError |-> onError, real |-> real, invoked |-> FALSE]

subscribe(onPosition, onError) ==
  /\ Len(handles) < MaxSubs
  /\ IF IsDuplicate(onPosition)
     THEN /\ handles' = Append(handles, Handle(onPosition, onError, FALSE))
          /\ lastCall' = NoCall
          /\ UNCHANGED <<callbacks, errorCallbacks, currentPosition, watchId, isWatching,
                         openWatches, watchCalls>>
     ELSE /\ callbacks' = callbacks \cup {onPosition}
          /\ errorCallbacks' = errorCallbacks \cup {onError}
          /\ lastCall' = Replay(onPosition)
          /\ IF ShouldStartWatching
             THEN watchCalls < MaxWatchCalls /\ startWatching
             ELSE UNCHANGED <<watchId, isWatching, openWatches, watchCalls>>
          /\ handles' = Append(handles, Handle(onPosition, onError, TRUE))
          /\ UNCHANGED currentPosition
  /\ UNCHANGED geoAvailable

\* invoking the closure that the h-th subscribe call returned
unsubscribe(h) ==
  /\ h \in 1..Len(handles)
  /\ handles' = [handles EXCEPT ![h].invoked = TRUE]
  /\ lastCall' = NoCall
  /\ IF handles[h].real
     THEN /\ callbacks' = callbacks \ {handles[h].onPosition}
          /\ errorCallbacks' = errorCallbacks \ {handles[h].onError}
          /\ IF ShouldStopWatching(callbacks \ {handles[h].onPosition})
             THEN stopWatching
             ELSE UNCHANGED <<watchId, isWatching, openWatches, watchCalls, currentPosition>>
     ELSE UNCHANGED <<callbacks, errorCallbacks, watchId, isWatching, openWatches,
                      watchCalls, currentPosition>>
  /\ UNCHANGED geoAvailable

\* the platform delivers a sample to the success callback of the open watch
onWatchPosition(position) ==
  /\ watchId # None /\ watchId[1] \in openWatches
  /\ currentPosition' = Some(position)
  /\ lastCall' = [kind |-> "sample", position |-> position, error |-> 0,
                  fns |-> callbacks]
  /\ UNCHANGED <<geoAvailable, callbacks, errorCallbacks, watchId, isWatching,
                 openWatches, watchCalls, handles>>

\* the platform reports an error to the error callback of the open watch
onWatchError(code) ==
  /\ watchId # None /\ watchId[1] \in openWatches
  /\ lastCall' = [kind |-> "error", position |-> "", error |-> code,
                  fns |-> errorCallbacks]
  /\ UNCHANGED <<geoAvailable, currentPosition, callbacks, errorCallbacks, watchId,
                 isWatching, openWatches, watchCalls, handles>>

GeoInitAny ==
  /\ AppInit /\ mirror = Absent /\ HistInit /\ TrackInit /\ MapInit
  /\ geoAvailable \in BOOLEAN
  /\ currentPosition = None
  /\ callbacks = {}
  /\ errorCallbacks = {}
  /\ watchId = None
  /\ isWatching = FALSE
  /\ openWatches = {}
  /\ watchCalls = 0
  /\ handles = <<>>
  /\ lastCall = NoCall

NextGeo ==
  \/ \E f \in PosFns, e \in ErrFns : subscribe(f, e) /\ UNCHANGED <<appVars, histVars, trackVars, mapVars>>
  \/ \E h \in 1..MaxSubs : unsubscribe(h) /\ UNCHANGED <<appVars, histVars, trackVars, mapVars>>
  \/ \E p \in Samples : onWatchPosition(p) /\ UNCHANGED <<appVars, histVars, trackVars, mapVars>>
  \/ \E c \in ErrorCodes : onWatchError(c) /\ UNCHANGED <<appVars, histVars, trackVars, mapVars>>

SpecGeo == GeoInitAny /\ [][NextGeo]_vars

\* the views and their trackers, in a browser with or without geolocation
SpecTrack == GeoInitAny /\ [][NextTrack]_vars

\* ============================================================== claims
NoDuplicates(list) ==
  \A i, j \in 1..Len(list) : list[i].aisId = list[j].aisId => i = j

RecordOf(list, aisId) == list[FindIndex(list, aisId)]

Has(list, r) == \E i \in 1..Len(list) : list[i] = r

FishermanUpdate(t) ==
  \/ \E lat \in Lats, lng \in Lngs : updateLocation(t, lat, lng)
  \/ \E s \in Statuses : updateBoatStatus(t, s)

\* C1: a fisherman view's updateLocation / updateBoatStatus is an upsert on the
\* mirror: afterwards the mirror holds the updated record of that vessel, and
\* every other record that was in the mirror before is still there, unchanged.
C1_UpdateIsUpsert ==
  [][\A t \in Tabs :
       FishermanUpdate(t) =>
         /\ Has(MirrorContent', boatData'[t][1])
         /\ \A i \in 1..Len(MirrorContent) :
              MirrorContent[i].aisId # boatData[t][1].aisId
                => Has(MirrorContent', MirrorContent[i])]_vars

\* C2: after any sequence of registrations the mirror holds exactly one record
\* per identifier registered or initially present, and the record of each
\* registered identifier is the whole record its last registration wrote.
C2_LastRegistrationWins ==
  LET list == MirrorContent
      registered == {a \in AisIds : lastReg[a] # None}
  IN /\ IsArray(mirror) \/ registered = {}
     /\ IdsOf(list) = IdsOf(LoadedVessels(mirror0)) \cup registered
     /\ Len(list) = Cardinality(IdsOf(list))
     /\ \A a \in registered : RecordOf(list, a) = lastReg[a][1]

\* reached: both identifiers are in the mirror, AIS1 was there from the start
\* and has been registered anew, and some identifier was registered twice
C2_Witness ==
  /\ Len(MirrorContent) = 2
  /\ mirror0 # Absent
  /\ lastReg["AIS1"] # None /\ lastReg["AIS2"] # None
  /\ \E a \in AisIds : lastReg[a][1].lastUpdate = 2
  /\ \E i \in 1..2 : MirrorContent[i].lastUpdate = 0

IsRegistration(t, a) ==
  \E b \in BoatIds, n \in Names, c \in Contacts :
    handleFishermanRegistration(t, a, b, n, c)

\* C3: no two records of the mirror share an AIS identifier, in any state; a
\* registration with an identifier already present replaces the entry at its
\* position and leaves the length of the list unchanged.
C3_UniqueAisId ==
  /\ NoDuplicates(MirrorContent)
  /\ [][/\ NoDuplicates(MirrorContent')
        /\ \A t \in Tabs, a \in AisIds :
             (IsRegistration(t, a) /\ a \in IdsOf(MirrorContent)) =>
               /\ Len(MirrorContent') = Len(MirrorContent)
               /\ FindIndex(MirrorContent', a) = FindIndex(MirrorContent, a)
               /\ MirrorContent'[FindIndex(MirrorContent, a)] = boatData'[t][1]]_vars

\* reached: the mirror holds two vessels, the first one was there from the
\* start and has been re-registered in place, and a coast-guard tab wrote it
C3_Witness ==
  /\ mirror0 # Absent
  /\ Len(MirrorContent) = 2
  /\ MirrorContent[1].aisId = "AIS1" /\ MirrorContent[1].boatId = "B1"
  /\ MirrorContent[1].status = "danger"
  /\ MirrorContent[2].aisId = "AIS2"


\* C4: after a fisherman tab wrote vessel X with status safe and a coast-guard
\* tab that had not re-read since then wrote X with status danger, the status
\* of X in the mirror is danger and stays danger through any reload triggers
\* and location samples.
C4_DangerStays ==
  scen.stage = "B" => StatusIn(MirrorContent, scen.x) = "danger"

Broadcast(t) ==
  \/ \E a \in AisIds : IsRegistration(t, a)
  \/ FishermanUpdate(t)
  \/ \E a \in AisIds, s \in Statuses : updateBoatStatusByCoastGuard(t, a, s)

C6_PollConverges ==
  \A t \in Tabs :
    (now = MaxClock /\ userType[t] = "coastguard")
      ~> (userType[t] # "coastguard" \/ allBoats[t] = MirrorContent)

\* reached: writes have stopped while a coast-guard session holds a list that
\* differs from the mirror
C6_Witness ==
  \E t \in Tabs :
    /\ now = MaxClock /\ userType[t] = "coastguard"
    /\ allBoats[t] # MirrorContent


\* ---------------------------------------------------- geolocation claims
IsSubscribe == \E f \in PosFns, e \in ErrFns : subscribe(f, e)

IsUnsubscribe(h) == unsubscribe(h)

\* the consumers: the subscribe calls that registered (not refused as
\* duplicates) and whose unsubscribe closure has not been invoked
Consumers == {h \in 1..Len(handles) : handles[h].real /\ ~handles[h].invoked}

\* C7: at most one underlying watch is open at any time, and a subscribe made
\* while a watch is open never calls watchPosition again.
C7_SingleWatch ==
  /\ Cardinality(openWatches) <= 1
  /\ [][/\ Cardinality(openWatches') <= 1
        /\ (IsSubscribe /\ openWatches # {}) => watchCalls' = watchCalls]_vars

\* reached: two consumers share the one watch, which is the second one opened
C7_Witness ==
  /\ Cardinality(callbacks) = 2
  /\ watchCalls = 2
  /\ openWatches = {2}
  /\ currentPosition # None

C9_RemovesOnlyOwn ==
  [][\A h \in 1..Len(handles) :
       IsUnsubscribe(h) =>
         \A k \in Consumers \ {h} :
           handles[k].onPosition \in callbacks => handles[k].onPosition \in callbacks']_vars

\* C10: on each error of the watch, the error callback of every consumer
\* subscribed at that moment is invoked with that error.
C10_ErrorFanOut ==
  lastCall.kind = "error" =>
    \A k \in Consumers : handles[k].onError \in lastCall.fns

\* the state of the service proper: both callback sets, the sample, the watch
serviceState ==
  <<callbacks, errorCallbacks, currentPosition, watchId, isWatching, openWatches,
    watchCalls>>

\* C11: a subscribe whose sample callback is already registered changes neither
\* callback set nor the watch and invokes no callback, and invoking the closure
\* it returned changes nothing either: the original registration stays.
C11_DuplicateIsNoOp ==
  [][/\ \A f \in PosFns, e \in ErrFns :
          (subscribe(f, e) /\ f \in callbacks) =>
            /\ UNCHANGED serviceState
            /\ lastCall'.fns = {}
            /\ ~handles'[Len(handles')].real
     /\ \A h \in 1..Len(handles) :
          (unsubscribe(h) /\ ~handles[h].real) =>
            /\ UNCHANGED serviceState
            /\ lastCall'.fns = {}]_vars

\* reached: with a sample at hand, a second subscribe of a registered sample
\* callback came with another error callback, its closure has been invoked,
\* and the original registration and its lone error callback are still there
C11_Witness ==
  \E h \in 1..Len(handles) :
    /\ ~handles[h].real /\ handles[h].invoked
    /\ handles[h].onPosition \in callbacks
    /\ handles[h].onError \notin errorCallbacks
    /\ Cardinality(errorCallbacks) = 1
    /\ currentPosition # None /\ openWatches # {}

\* C12: a subscribe that is not a duplicate invokes, before it returns, the new
\* sample callback and nothing else with the most recent sample when there is
\* one, and invokes no callback when there is none.
C12_ReplayOnSubscribe ==
  [][\A f \in PosFns, e \in ErrFns :
       (subscribe(f, e) /\ f \notin callbacks) =>
         IF currentPosition # None
         THEN /\ lastCall'.kind = "replay"
              /\ lastCall'.fns = {f}
              /\ lastCall'.position = currentPosition[1]
         ELSE lastCall'.fns = {}]_vars

\* reached: a late subscriber has just been handed the last sample, which
\* another sample had superseded an earlier one, on a watch opened anew
C12_Witness ==
  /\ lastCall.kind = "replay" /\ lastCall.position = "p2"
  /\ currentPosition = Some("p2")
  /\ watchCalls = 2 /\ openWatches = {2}
  /\ Len(handles) >= 2

\* ------------------------------------------------------- tracker claims
IsWatchSample(t) == \E p \in Positions : trackerWatchSuccess(t, p)

IsOneShotSample(t) == \E p \in Positions : \E r \in pending[t] : oneShotSuccess(t, r, p)

ErrorStatuses == {"denied", "unavailable", "timeout"}

\* C13: while a tracker has tracking enabled (geolocation supported) it is a
\* registered consumer of the shared source, and no continuous watch other
\* than the source's shared one is open on its behalf.
C13_TrackersShareTheSource ==
  \A t \in Tabs :
    (TrackerOn(t) /\ geoAvailable) => (callbacks # {} /\ trackerWatch[t] = None)

\* a sample reaches the mounted tracker of tab t, from its watch or from a
\* one-shot request of its own
SampleDelivered(t, p) ==
  \/ trackerWatchSuccess(t, p)
  \/ \E r \in pending[t] : r.live /\ oneShotSuccess(t, r, p)

\* C14: every sample delivered to a fisherman tracker with tracking enabled
\* puts the sample's latitude, longitude, speed and heading and the time of
\* the update into the vessel record, and the mirror then holds that record.
C14_SampleUpdatesRecord ==
  [][\A t \in Tabs, p \in Positions :
       (SampleDelivered(t, p) /\ userType[t] = "fisherman" /\ TrackerOn(t)) =>
         /\ boatData'[t] # None
         /\ boatData'[t][1].location = [lat |-> p.lat, lng |-> p.lng, timestamp |-> now]
         /\ boatData'[t][1].lastUpdate = now
         /\ boatData'[t][1].speed = SpeedKnots(p.speed)
         /\ boatData'[t][1].heading = HeadingDegrees(p.heading)
         /\ Has(MirrorContent', boatData'[t][1])]_vars

\* C15: while tracking is disabled in a tab (toggled off, logged out, role
\* left) no location callback, the answer to a one-shot request that was
\* pending included, changes the vessel record, the coast-guard record or
\* the mirror.
C15_NoUpdateAfterDisable ==
  [][\A t \in Tabs :
       (~TrackerOn(t) /\ (IsWatchSample(t) \/ IsOneShotSample(t))) =>
         /\ mirror' = mirror
         /\ boatData'[t] = boatData[t]
         /\ coastGuardVessel'[t] = coastGuardVessel[t]]_vars

StaysMounted(t) ==
  Mounted(userType[t], isRegistered[t]) /\ Mounted(userType'[t], isRegistered'[t])

\* C16: a mounted tracker whose status is denied, unavailable or timeout keeps
\* it through samples, errors and polls; only handleRetry changes it, to
\* requesting, and only handleRetry sets a status to requesting.
C16_ErrorStatesTerminal ==
  [][\A t \in Tabs :
       (StaysMounted(t) /\ locationStatus'[t] # locationStatus[t]) =>
         /\ locationStatus[t] \in ErrorStatuses
              => (handleRetry(t) /\ locationStatus'[t] = "requesting")
         /\ locationStatus'[t] = "requesting" => handleRetry(t)]_vars

\* C17: a retry from an error state with tracking enabled sets the status to
\* requesting and issues a new one-shot request and a new continuous watch.
C17_RetryReissues ==
  [][\A t \in Tabs :
       (handleRetry(t) /\ TrackerOn(t) /\ locationStatus[t] \in ErrorStatuses) =>
         /\ locationStatus'[t] = "requesting"
         /\ oneShotRequests'[t] = oneShotRequests[t] + 1
         /\ watchRequests'[t] = watchRequests[t] + 1]_vars

\* C18: an error of the continuous watch sets the status that belongs to its
\* code (1 denied, 2 unavailable, 3 timeout), and in the status it sets the
\* retry action is offered.
C18_ErrorsMappedWithRetry ==
  [][\A t \in Tabs, c \in ErrorCodes :
       trackerWatchError(t, c) =>
         /\ c = 1 => locationStatus'[t] = "denied"
         /\ c = 2 => locationStatus'[t] = "unavailable"
         /\ c = 3 => locationStatus'[t] = "timeout"
         /\ RetryVisible(locationStatus'[t])]_vars

\* ------------------------------------------------------- storage claims
IsLoad(t) ==
  \/ \E id \in CgIds : SelectCoastGuard(t, id)
  \/ Poll(t)
  \/ StorageEvent(t)

\* C19: whatever the key holds, loadVesselsFromStorage lets no exception
\* escape and leaves the mirror as it is, and with the key absent or its text
\* unparseable the in-memory list becomes the empty list.
C19_LoadNeverRaises ==
  [][\A t \in Tabs :
       IsLoad(t) =>
         /\ uncaught' = ""
         /\ mirror' = mirror
         /\ mirror.kind \in {"absent", "garbage"} => allBoats'[t] = <<>>]_vars

\* reached: a coast-guard view that has loaded an unparseable text and holds
\* the empty list, next to a tab in the fisherman portal
C19_Witness ==
  \E t \in Tabs :
    /\ syncOn[t] /\ mirror.kind = "garbage"
    /\ allBoats[t] = <<>> /\ uncaught = ""
    /\ userType[CHOOSE u \in Tabs : u # t] = "fisherman"

\* C20: whatever the key holds, a registration lets no exception escape, and
\* afterwards the mirror is a list that holds the record just registered.
C20_RegistrationNeverRaises ==
  [][\A t \in Tabs, a \in AisIds :
       IsRegistration(t, a) =>
         /\ uncaught' = ""
         /\ IsArray(mirror')
         /\ Has(MirrorContent', boatData'[t][1])]_vars

\* ------------------------------------------------------ broadcast claims
\* C21: each of the four writing operations dispatches 'vesselsUpdated' once
\* with its write of the mirror, so that writes and broadcasts stay paired,
\* and a step that does not write the mirror dispatches nothing.
C21_WriteThenBroadcast ==
  /\ dispatched = now
  /\ [][IF now' # now
        THEN /\ \E t \in Tabs : Broadcast(t)
             /\ now' = now + 1
             /\ dispatched' = dispatched + 1
        ELSE mirror' = mirror /\ dispatched' = dispatched]_vars

\* reached: over a key that held a non-list text a registration wrote
\* nothing, and later a fisherman view and a coast-guard view made three
\* writes, the last one setting a vessel to danger
C21_Witness ==
  /\ mirror0 = NonList
  /\ dispatched = 3
  /\ Len(MirrorContent) >= 1
  /\ \E a \in AisIds : StatusIn(MirrorContent, a) = "danger"
  /\ \E t \in Tabs : syncOn[t]

\* ---------------------------------------------------- coast-guard claims
CoastGuardSample(t, p) ==
  \/ userType[t] = "coastguard" /\ trackerWatchSuccess(t, p)
  \/ \E r \in pending[t] :
       /\ IF r.live THEN userType[t] = "coastguard" ELSE r.kind = "coastguard"
       /\ oneShotSuccess(t, r, p)

IsCoastGuardSample(t) == \E p \in Positions : CoastGuardSample(t, p)

IsVesselRecord(r) == "aisId" \in DOMAIN r /\ "vesselId" \notin DOMAIN r

\* C22: the mirror never holds a coast-guard record, and the start of a
\* coast-guard session, a coast-guard location update and a tracking toggle
\* leave the mirror as it is.
C22_CoastGuardNotPersisted ==
  /\ \A i \in 1..Len(MirrorContent) : IsVesselRecord(MirrorContent[i])
  /\ [][/\ \A i \in 1..Len(MirrorContent') : IsVesselRecord(MirrorContent'[i])
        /\ \A t \in Tabs :
             (\/ \E id \in CgIds : SelectCoastGuard(t, id)
              \/ IsCoastGuardSample(t)
              \/ toggleCoastGuardTracking(t, ~isCoastGuardTracking[t]))
               => mirror' = mirror]_vars

\* reached: a coast-guard session with tracking on whose record carries a
\* sample with speed and heading, over a mirror that holds a vessel
C22_Witness ==
  \E t \in Tabs :
    /\ userType[t] = "coastguard" /\ isCoastGuardTracking[t]
    /\ coastGuardVessel[t] # None
    /\ coastGuardVessel[t][1].location.lat = 11
    /\ coastGuardVessel[t][1].speed > 0
    /\ coastGuardVessel[t][1].isTracking
    /\ Len(MirrorContent) >= 1

\* C23: after every sample the coast-guard tracker handles, the record's
\* speed is the sample's speed times 1.94384 (0 without a speed) and its
\* heading the sample's heading (0 without a heading), both numbers; speeds
\* are in units of 1/100000 knot.
C23_KinematicsDefaulted ==
  [][\A t \in Tabs, p \in Positions :
       CoastGuardSample(t, p) =>
         /\ coastGuardVessel'[t] # None
         /\ coastGuardVessel'[t][1].speed \in Nat
         /\ coastGuardVessel'[t][1].heading \in Nat
         /\ coastGuardVessel'[t][1].speed =
              (IF p.speed = None THEN 0 ELSE p.speed[1] * 194384)
         /\ coastGuardVessel'[t][1].heading =
              (IF p.heading = None THEN 0 ELSE p.heading[1])]_vars

\* reached: the record holds 5 m/s as 9.7192 knots and heading 90, written
\* by the tracker, whose status is granted
C23_Witness ==
  \E t \in Tabs :
    /\ userType[t] = "coastguard"
    /\ coastGuardVessel[t] # None
    /\ coastGuardVessel[t][1].speed = 971920
    /\ coastGuardVessel[t][1].heading = 90
    /\ locationStatus[t] = "granted"

\* ------------------------------------------------------------ map claim
\* C24: while a zoom or a move of the user is in progress on the map, no step
\* makes an automatic setView or fitBounds, whatever the order of interaction
\* events, reset timers and vessel updates.
C24_NoAdjustWhileInteracting ==
  [][inProgress # {} => lastAdjust' = "none"]_vars

\* ------------------------------------------------------- session claims
\* a step within the page that only replaces the in-memory list of tab t: a
\* poll tick or a storage event that reloaded
OnlyReloads(t) ==
  /\ allBoats'[t] # allBoats[t]
  /\ ~PageReload(t)
  /\ UNCHANGED <<mirror, now, dispatched, userType, isRegistered, boatData, isTracking,
                 coastGuardVessel, isCoastGuardTracking, syncOn>>

\* C25: the poll and the two listeners are installed exactly while the tab is
\* in a coast-guard session, installed by the session start alone and from a
\* state without them; in a tab without a session no poll tick and no storage
\* event changes the in-memory list, and the broadcast of the tab's own write
\* leaves the list as the handler itself computed it.
C25_TriggersForSessionOnly ==
  [][\A t \in Tabs :
       /\ syncOn'[t] <=> userType'[t] = "coastguard"
       /\ (syncOn'[t] /\ ~syncOn[t]) => userType[t] = "null"
       /\ OnlyReloads(t) => syncOn[t]
       /\ \A a \in AisIds :
            (~syncOn[t] /\ IsRegistration(t, a) /\ RegistrationThrown(mirror) = "")
              => allBoats'[t] = UpsertVessel(allBoats[t], boatData'[t][1])
       /\ (~syncOn[t] /\ FishermanUpdate(t)) => Len(allBoats'[t]) = Len(allBoats[t])]_vars

\* reached: a tab whose coast-guard session ended by logout (its record is
\* still in memory) has registered as a fisherman over a mirror holding
\* another vessel, and its list lacks that vessel: the broadcast of the
\* registration reloaded nothing.
C25_Witness ==
  \E t \in Tabs :
    /\ coastGuardVessel[t] # None /\ ~syncOn[t]
    /\ userType[t] = "fisherman" /\ isRegistered[t]
    /\ Len(MirrorContent) = 2 /\ Len(allBoats[t]) = 1

\* tab t wrote record r of its own vessel into the mirror, and the in-memory
\* list of tab u has not been reloaded since: it lacks r
WroteUnseen(t, u, r) ==
  /\ t # u
  /\ boatData[t] = Some(r)
  /\ Has(MirrorContent, r)
  /\ ~Has(allBoats[u], r)

\* tab u writes the mirror through an update handler that changes a vessel
\* other than x
WritesOther(u, x) ==
  \/ \E a \in AisIds \ {x}, s \in Statuses : updateBoatStatusByCoastGuard(u, a, s)
  \/ /\ boatData[u] # None /\ boatData[u][1].aisId # x
     /\ FishermanUpdate(u)

\* C26: when a tab writes the mirror from its in-memory list, changing one
\* vessel, while the mirror holds a change another tab made to a different
\* vessel that the writer has not reloaded, the mirror becomes the writer's
\* whole list and the other tab's change is no longer in it.
C26_LaterWriterWinsInFull ==
  [][\A t, u \in Tabs : \A r \in {boatData[t][i] : i \in 1..Len(boatData[t])} :
       (WroteUnseen(t, u, r) /\ WritesOther(u, r.aisId))
         => /\ MirrorContent' = allBoats'[u]
            /\ ~Has(MirrorContent', r)]_vars

\* reached: the mirror equals the list of a coast-guard tab that changed the
\* status of one vessel, and holds an older record of another tab's vessel
\* than the one that tab wrote last
C26_Witness ==
  \E t, u \in Tabs :
    /\ t # u /\ userType[u] = "coastguard" /\ boatData[t] # None
    /\ MirrorContent = allBoats[u]
    /\ boatData[t][1].aisId \in IdsOf(MirrorContent)
    /\ RecordOf(MirrorContent, boatData[t][1].aisId).lastUpdate < boatData[t][1].lastUpdate
    /\ \E i \in 1..Len(MirrorContent) :
         /\ MirrorContent[i].aisId # boatData[t][1].aisId
         /\ MirrorContent[i].status = "danger"

\* C27: in every coast-guard session the isTracking field of the coast-guard
\* record equals isCoastGuardTracking, after any sequence of session starts,
\* toggles, location updates and logouts.
C27_FlagMatchesTracker ==
  \A t \in Tabs :
    (userType[t] = "coastguard" /\ coastGuardVessel[t] # None)
      => coastGuardVessel[t][1].isTracking = isCoastGuardTracking[t]

\* ------------------------------------------------- tracker status claims
IsOneShotError(t) == \E r \in pending[t] : oneShotError(t, r)

EntersError(t) ==
  locationStatus'[t] \in ErrorStatuses /\ locationStatus'[t] # locationStatus[t]

\* tracking starts in a browser without geolocation support
StartsUnsupported(t) == ~geoAvailable /\ ~TrackerOn(t) /\ TrackerOn(t)'

\* C28 as stated: a failure of the one-shot request leaves the tracker status
\* as it is, and only an error of the continuous subscription moves the
\* status to denied, unavailable or timeout.
C28_OnlySubscriptionErrors ==
  [][\A t \in Tabs :
       /\ IsOneShotError(t) => locationStatus'[t] = locationStatus[t]
       /\ EntersError(t) => \E c \in ErrorCodes : trackerWatchError(t, c)]_vars

\* C28 as amended: a failure of the one-shot request leaves the tracker
\* status as it is; the status moves to denied, unavailable or timeout on an
\* error of the continuous subscription, or to unavailable when tracking
\* starts without geolocation support, and in no other step.
C28_OneShotFailureIsSilent ==
  [][\A t \in Tabs :
       /\ IsOneShotError(t) => locationStatus'[t] = locationStatus[t]
       /\ EntersError(t) =>
            \/ \E c \in ErrorCodes : trackerWatchError(t, c)
            \/ StartsUnsupported(t) /\ locationStatus'[t] = "unavailable"]_vars

\* reached: a coast-guard tracker whose one-shot request of this session was
\* answered without a sample ever reaching the record (it failed) is still
\* requesting, its continuous subscription open
C28_Witness ==
  \E t \in Tabs :
    /\ userType[t] = "coastguard" /\ coastGuardVessel[t] # None
    /\ coastGuardVessel[t][1].location.lat = 0
    /\ trackerWatch[t] # None /\ pending[t] = {}
    /\ locationStatus[t] = "requesting"

\* C29: each time tracking is enabled on a coast-guard tracker, first enable
\* or re-enable within the session, the tracker status is requesting when the
\* new acquisition starts (with geolocation supported), and not granted or an
\* error status left by an earlier acquisition.
C29_EnableStartsRequesting ==
  [][\A t \in Tabs :
       (userType'[t] = "coastguard" /\ geoAvailable /\ ~TrackerOn(t) /\ TrackerOn(t)')
         => locationStatus'[t] = "requesting"]_vars

\* ------------------------------------------------- shared service claim
\* the step is an unsubscribe of the last consumer, which tears the watch down
TearsDown == isWatching /\ ~isWatching' /\ \E h \in 1..MaxSubs : unsubscribe(h)

\* C30: the service keeps its most recent sample when the last consumer
\* unsubscribes and the watch is torn down, and the first consumer that
\* subscribes afterwards is handed that sample within the subscribe call
\* that re-opens the watch, before the new watch has produced a sample.
C30_SampleSurvivesTeardown ==
  [][/\ TearsDown => (callbacks' = {} /\ currentPosition' = currentPosition)
     /\ \A f \in PosFns, e \in ErrFns :
          (callbacks = {} /\ ~isWatching /\ currentPosition # None /\ subscribe(f, e))
            => /\ lastCall' = [kind |-> "replay", position |-> currentPosition[1],
                               error |-> 0, fns |-> {f}]
               /\ isWatching' /\ watchCalls' = watchCalls + 1
               /\ currentPosition' = currentPosition]_vars

\* reached: every earlier consumer has unsubscribed, and the one consumer
\* there is now has just been handed the sample of the closed watch by the
\* subscribe that opened a new one
C30_Witness ==
  /\ Len(handles) >= 2
  /\ Consumers = {Len(handles)}
  /\ callbacks = {handles[Len(handles)].onPosition}
  /\ lastCall.kind = "replay" /\ lastCall.fns = callbacks
  /\ currentPosition = Some(lastCall.position)
  /\ isWatching /\ watchCalls >= 2 /\ openWatches = {watchCalls}

====
